---- MODULE Spec2Model ----
(***************************************************************************)
(* rcoffee: src/rcoffee/process.py, class Process.                         *)
(*                                                                         *)
(* run_async() cross-copies, creates the _sync_request future and gathers  *)
(* three coroutines on one asyncio event loop: _watch_local (Watcher),     *)
(* _poll_remote (Poller) and _sync (Coordinator).  A step of the model is  *)
(* what one coroutine executes between two of its suspension points        *)
(* (await), which is atomic under cooperative scheduling.                  *)
(***************************************************************************)
EXTENDS Bags, FiniteSets, Integers, Sequences, TLC

\* ------------------------------------------------------------------ bounds
MaxPath == 2          \* remote entries have a Path in 1..MaxPath
MaxLocalEvents == 2   \* notifications the local watch delivers in one run
MaxRemoteEdits == 2   \* times the remote tree is edited in one run

VARIABLES
    run_pc,           \* position of run_async
    watch_pc,         \* position of _watch_local
    poll_pc,          \* position of _poll_remote
    sync_pc,          \* position of _sync
    local_changed,    \* Process._local_changed
    remote_changed,   \* Process._remote_changed
    sync_request,     \* Process._sync_request: "None", or a future "pending" / "done"
    need_push,        \* local of _sync
    need_pull,        \* local of _sync
    last_state,       \* local of _poll_remote: None or the previous listing
    stdout_content,   \* bytes read from the lsjson subprocess, None before the read
    procs,            \* bag of rclone subprocesses that were spawned and have not exited
    returncode,       \* value of the last Subprocess.wait(), None before the first
    remote,           \* the remote tree (environment)
    nEdits,           \* edits of the remote tree so far
    nLocal,           \* notifications of the local watch so far
    \* history of the run, written by the actions and read by the properties only
    startupLog,       \* commands run_async's cross-copy has spawned, in order
    pushSyncs,        \* "sync local remote" spawned by _sync so far
    pullOrCross,      \* _sync has spawned a "sync remote local" or a cross-copy
    remoteRaised,     \* _poll_remote has set _remote_changed at least once
    lateLocal,        \* a notification arrived while a transfer or the post-dedupe was awaited
    newBurst,         \* a notification arrived in Idle on a pending future after a completed cycle
    wakeLocal,        \* a local signal was raised on an already done future, since the last re-arm
    wakeRemote,       \* a remote signal was raised on an already done future, since the last re-arm
    cycDedupes,       \* dedupes spawned by _sync since its last wake
    decided,          \* the branch _sync took at its last loop exit and the signals it had seen
    pendLocal,        \* a local signal no later push or cross-copy has started after
    pendRemote,       \* a remote signal no later pull or cross-copy has started after
    cycTransfers,     \* transfers spawned by _sync since its last wake, in order
    cycRearms,        \* times _sync has replaced the future since its last wake
    quiet             \* no signal was raised since the running cooldown sleep began

progVars == <<run_pc, watch_pc, poll_pc, sync_pc, local_changed, remote_changed,
              sync_request, need_push, need_pull, last_state, stdout_content,
              procs, returncode>>
envVars  == <<remote, nEdits, nLocal>>
histVars == <<startupLog, pushSyncs, pullOrCross, remoteRaised, lateLocal, newBurst,
              wakeLocal, wakeRemote, cycDedupes, decided, pendLocal, pendRemote>>
cycVars  == <<cycTransfers, cycRearms, quiet>>
vars     == <<progVars, envVars, histVars, cycVars>>

\* ------------------------------------------------------------ Optional[T]
None == <<>>
Some(x) == <<x>>

\* ------------------------------------------------------------ remote tree
\* an entry of the listing is a JSON object; "Path" is the one key the code
\* reads, the rest of an entry takes part in the comparison of listings only
Paths == 1..MaxPath
Items == [Path : Paths]

\* a tree holds at most one entry per path
RemoteTrees == SUBSET Items

RECURSIVE Orderings(_)
Orderings(S) ==
    IF S = {} THEN {<<>>}
    ELSE UNION {{<<x>> \o p : p \in Orderings(S \ {x})} : x \in S}

\* what "rclone lsjson --recursive" can write to its stdout for a tree: the
\* entries in some order, nothing at all, or text that is no JSON list of entries
Json(items) == [kind |-> "json", items |-> items]
EmptyOutput == [kind |-> "empty", items |-> <<>>]
Malformed == [kind |-> "malformed", items |-> <<>>]
LsjsonOutputs(tree) == {Json(p) : p \in Orderings(tree)} \cup {EmptyOutput, Malformed}

\* ------------------------------------------------- _fetch_remote_state
\* sorted(..., key=lambda item: item["Path"]): stable, ascending by Path
RECURSIVE InsertByPath(_, _)
InsertByPath(item, s) ==
    IF s = <<>> THEN <<item>>
    ELSE IF item.Path < Head(s).Path THEN <<item>> \o s
    ELSE <<Head(s)>> \o InsertByPath(item, Tail(s))

RECURSIVE SortedByPath(_)
SortedByPath(s) ==
    IF s = <<>> THEN <<>>
    ELSE InsertByPath(s[Len(s)], SortedByPath(SubSeq(s, 1, Len(s) - 1)))

\* the value _fetch_remote_state returns, or the exception it raises:
\* sorted(None) is a TypeError, json.loads of malformed text a JSONDecodeError
FetchRemoteState(out) ==
    IF out.kind = "empty" THEN [raised |-> TRUE, value |-> <<>>]
    ELSE IF out.kind = "malformed" THEN [raised |-> TRUE, value |-> <<>>]
    ELSE [raised |-> FALSE, value |-> SortedByPath(out.items)]

\* ------------------------------------------------------- _poll_remote
\* Python truth value of an Optional[list]: None and [] are false
Truthy(opt) == opt # None /\ opt[1] # <<>>

RemoteChangeDetectedNoBaseline(last, new) == Some(new) # last

\* line 100: last_state and new_state != last_state
RemoteChangeDetected(last, new) == Truthy(last) /\ new # last[1]

\* ------------------------------------------------------ _request_sync
\* lines 80-81: resolve the future if there is one and it is not done
RequestSyncUnguarded(req) == IF req = "pending" THEN "done" ELSE "InvalidStateError"

RequestSyncReplaces(req) == IF req = "pending" THEN "done" ELSE "pending"

RequestSyncNoop(req) == req

RequestSync(req) == IF req # "None" /\ req # "done" THEN "done" ELSE req

\* ------------------------------------------------------------ _sync
AccumulateOverwrite(need, changed) == changed

AccumulateAnd(need, changed) == need /\ changed

\* lines 127-128: need |= changed
Accumulate(need, changed) == need \/ changed

LoopConditionLocalOnly(lc, rc) == lc

\* line 126: while self._local_changed or self._remote_changed
LoopCondition(lc, rc) == lc \/ rc

RearmedKept(req) == req

\* line 137: self._sync_request = a new future, whatever the old one was
Rearmed(req) == "pending"

DecideBothIsPush(push, pull) ==
    IF push THEN "sync_push"
    ELSE IF pull THEN "sync_pull"
    ELSE "unreachable"

DecideSwapped(push, pull) ==
    IF push /\ pull THEN "cross_copy"
    ELSE IF push THEN "sync_pull"
    ELSE IF pull THEN "sync_push"
    ELSE "unreachable"

\* lines 141-151: the branch taken
Decide(push, pull) ==
    IF push /\ pull THEN "cross_copy"
    ELSE IF push THEN "sync_push"
    ELSE IF pull THEN "sync_pull"
    ELSE "unreachable"

CrossCopyOrderSwapped == <<"copy_push", "copy_pull">>

\* lines 63-64: copy remote -> local, then copy local -> remote
CrossCopyOrder == <<"copy_pull", "copy_push">>

\* --------------------------------------------------------- subprocesses
ExitCodes == {0, 1}

\* _spawn_rclone: the subprocess exists once create_subprocess_exec returns
Spawned(bag, cmd) == bag (+) SetToBag({cmd})

ReapedNever(bag, cmd) == bag

\* _exit_rclone: wait() returns when the subprocess has exited
Reaped(bag, cmd) == bag (-) SetToBag({cmd})

\* line 46: spawn("rclone", command, "-vv", *args)
SpawnRclone(command, args) == <<"rclone", command, "-vv">> \o args

\* line 53: _exit_rclone(command, "--update", "--modify-window=...", source, dest, *args)
Transfer(command, source, dest, args) ==
    SpawnRclone(command, <<"--update", "--modify-window", source, dest>> \o args)

SyncUpdateNoDelete(source, dest) == Transfer("sync", source, dest, <<>>)

\* line 56
SyncUpdate(source, dest) == Transfer("sync", source, dest, <<"--delete-before">>)

\* line 59
CopyUpdate(source, dest) == Transfer("copy", source, dest, <<>>)

\* the argument vector behind each name the model gives a subprocess
\* (lines 63, 64, 146, 149, 69 and 73)
Argv(cmd) ==
    CASE cmd = "copy_pull" -> CopyUpdate("remote_path", "local_path")
      [] cmd = "copy_push" -> CopyUpdate("local_path", "remote_path")
      [] cmd = "sync_push" -> SyncUpdate("local_path", "remote_path")
      [] cmd = "sync_pull" -> SyncUpdate("remote_path", "local_path")
      [] cmd = "dedupe" -> SpawnRclone("dedupe", <<"--dedupe-mode", "newest", "remote_path">>)
      [] cmd = "lsjson" -> SpawnRclone("lsjson", <<"--recursive", "remote_path">>)

TransferCmds == {"copy_pull", "copy_push", "sync_push", "sync_pull"}
TransferPcs == {"cross_copy_1", "cross_copy_2", "sync_push", "sync_pull"}

NoDecision == [branch |-> "none", local |-> FALSE, remote |-> FALSE, quiet |-> FALSE,
               from |-> "none"]

\* asyncio.run: the tasks of the loop run until the loop stops
Alive == run_pc \in {"gather", "unwinding"}

\* ------------------------------------------------------------------ Init
Init ==
    /\ run_pc = "new"
    /\ watch_pc = "unstarted"
    /\ poll_pc = "unstarted"
    /\ sync_pc = "unstarted"
    /\ local_changed = FALSE
    /\ remote_changed = FALSE
    /\ sync_request = "None"
    /\ need_push = FALSE
    /\ need_pull = FALSE
    /\ last_state = None
    /\ stdout_content = None
    /\ procs = EmptyBag
    /\ returncode = None
    /\ remote \in RemoteTrees
    /\ nEdits = 0
    /\ nLocal = 0
    /\ startupLog = <<>>
    /\ pushSyncs = 0
    /\ pullOrCross = FALSE
    /\ remoteRaised = FALSE
    /\ lateLocal = FALSE
    /\ newBurst = FALSE
    /\ wakeLocal = FALSE
    /\ wakeRemote = FALSE
    /\ cycDedupes = 0
    /\ decided = NoDecision
    /\ pendLocal = FALSE
    /\ pendRemote = FALSE
    /\ cycTransfers = <<>>
    /\ cycRearms = 0
    /\ quiet = FALSE


\* ------------------------------------------------------------- run_async
\* line 163, first half of _cross_copy: spawn the first copy and await its exit
RunAsync ==
    /\ run_pc = "new"
    /\ run_pc' = "cross_copy_1"
    /\ procs' = Spawned(procs, CrossCopyOrder[1])
    /\ startupLog' = Append(startupLog, CrossCopyOrder[1])
    /\ UNCHANGED <<watch_pc, poll_pc, sync_pc, local_changed, remote_changed, sync_request,
                   need_push, need_pull, last_state, stdout_content, returncode>>
    /\ UNCHANGED envVars
    /\ UNCHANGED <<pushSyncs, pullOrCross, remoteRaised, lateLocal, newBurst, wakeLocal,
                   wakeRemote, cycDedupes, pendLocal, pendRemote, decided>>
    /\ UNCHANGED cycVars

\* line 163, second half of _cross_copy: the first copy exited, spawn the second
StartupCopy1Done ==
    /\ run_pc = "cross_copy_1"
    /\ BagIn(CrossCopyOrder[1], procs)
    /\ \E rc \in ExitCodes : returncode' = Some(rc)
    /\ run_pc' = "cross_copy_2"
    /\ procs' = Spawned(Reaped(procs, CrossCopyOrder[1]), CrossCopyOrder[2])
    /\ startupLog' = Append(startupLog, CrossCopyOrder[2])
    /\ UNCHANGED <<watch_pc, poll_pc, sync_pc, local_changed, remote_changed, sync_request,
                   need_push, need_pull, last_state, stdout_content>>
    /\ UNCHANGED envVars
    /\ UNCHANGED <<pushSyncs, pullOrCross, remoteRaised, lateLocal, newBurst, wakeLocal,
                   wakeRemote, cycDedupes, pendLocal, pendRemote, decided>>
    /\ UNCHANGED cycVars

\* lines 165-172: the second copy exited; create the future and gather the three
\* coroutines, each of which runs to its first suspension point (awatch, the
\* spawn of lsjson, await self._sync_request)
StartGather ==
    /\ run_pc = "cross_copy_2"
    /\ BagIn(CrossCopyOrder[2], procs)
    /\ \E rc \in ExitCodes : returncode' = Some(rc)
    /\ sync_request' = "pending"
    /\ run_pc' = "gather"
    /\ watch_pc' = "awatch"
    /\ poll_pc' = "lsjson"
    /\ sync_pc' = "await_request"
    /\ procs' = Spawned(Reaped(procs, CrossCopyOrder[2]), "lsjson")
    /\ UNCHANGED <<local_changed, remote_changed, need_push, need_pull, last_state,
                   stdout_content>>
    /\ UNCHANGED envVars
    /\ UNCHANGED histVars
    /\ UNCHANGED cycVars

\* asyncio.gather without return_exceptions hands the first exception to
\* run_async (line 168); asyncio.run then cancels the tasks that are left.
\* Until the loop gets there the other tasks may still be resumed.
CancelAll ==
    /\ run_pc = "unwinding"
    /\ run_pc' = "exited"
    /\ watch_pc' = IF watch_pc = "raised" THEN watch_pc ELSE "cancelled"
    /\ poll_pc' = IF poll_pc = "raised" THEN poll_pc ELSE "cancelled"
    /\ sync_pc' = IF sync_pc = "raised" THEN sync_pc ELSE "cancelled"
    /\ UNCHANGED <<local_changed, remote_changed, sync_request, need_push, need_pull,
                   last_state, stdout_content, procs, returncode>>
    /\ UNCHANGED envVars
    /\ UNCHANGED histVars
    /\ UNCHANGED cycVars

\* ----------------------------------------------------------- environment
\* some writer other than this process changes the remote tree
RemoteEdit ==
    /\ nEdits < MaxRemoteEdits
    /\ run_pc # "exited"
    /\ \E t \in RemoteTrees : t # remote /\ remote' = t
    /\ nEdits' = nEdits + 1
    /\ UNCHANGED progVars
    /\ UNCHANGED nLocal
    /\ UNCHANGED histVars
    /\ UNCHANGED cycVars

\* ---------------------------------------------------------- _watch_local
\* lines 86-89: awatch yields a batch of changes
WatchLocal ==
    /\ Alive
    /\ watch_pc = "awatch"
    /\ nLocal < MaxLocalEvents
    /\ nLocal' = nLocal + 1
    /\ local_changed' = TRUE
    /\ sync_request' = RequestSync(sync_request)
    /\ lateLocal' = (lateLocal \/ sync_pc \in TransferPcs \cup {"dedupe_post"})
    /\ newBurst' = (newBurst \/ (/\ sync_pc = "await_request"
                                 /\ sync_request = "pending"
                                 /\ (pushSyncs > 0 \/ pullOrCross)))
    /\ wakeLocal' = (wakeLocal \/ sync_request = "done")
    /\ pendLocal' = TRUE
    /\ UNCHANGED <<run_pc, watch_pc, poll_pc, sync_pc, remote_changed, need_push, need_pull,
                   last_state, stdout_content, procs, returncode>>
    /\ UNCHANGED <<remote, nEdits>>
    /\ UNCHANGED <<startupLog, pushSyncs, pullOrCross, remoteRaised, wakeRemote, cycDedupes,
                   pendRemote, decided>>
    /\ quiet' = FALSE
    /\ UNCHANGED <<cycTransfers, cycRearms>>

\* ---------------------------------------------------------- _poll_remote
\* lines 73-75: the lsjson subprocess writes its output and closes stdout
LsjsonOutput ==
    /\ Alive
    /\ poll_pc = "lsjson"
    /\ BagIn("lsjson", procs)
    /\ \E out \in LsjsonOutputs(remote) : stdout_content' = Some(out)
    /\ procs' = Reaped(procs, "lsjson")
    /\ poll_pc' = "read"
    /\ UNCHANGED <<run_pc, watch_pc, sync_pc, local_changed, remote_changed, sync_request,
                   need_push, need_pull, last_state, returncode>>
    /\ UNCHANGED envVars
    /\ UNCHANGED histVars
    /\ UNCHANGED cycVars

\* lines 76 and 98-109: parse and sort the listing, compare it with the last
\* one, remember it, sleep; an exception of the parse leaves the coroutine
PollRemote ==
    /\ Alive
    /\ poll_pc = "read"
    /\ LET new_state == FetchRemoteState(stdout_content[1])
           detected == RemoteChangeDetected(last_state, new_state.value)
       IN  IF new_state.raised
           THEN /\ poll_pc' = "raised"
                /\ run_pc' = "unwinding"
                /\ UNCHANGED <<remote_changed, sync_request, last_state>>
                /\ UNCHANGED <<remoteRaised, wakeRemote, pendRemote, quiet>>
           ELSE /\ poll_pc' = "sleep"
                /\ run_pc' = run_pc
                /\ remote_changed' = (remote_changed \/ detected)
                /\ sync_request' = IF detected THEN RequestSync(sync_request)
                                   ELSE sync_request
                /\ last_state' = Some(new_state.value)
                /\ remoteRaised' = (remoteRaised \/ detected)
                /\ wakeRemote' = (wakeRemote \/ (detected /\ sync_request = "done"))
                /\ pendRemote' = (pendRemote \/ detected)
                /\ quiet' = (quiet /\ ~detected)
    /\ stdout_content' = None
    /\ UNCHANGED <<watch_pc, sync_pc, local_changed, need_push, need_pull, procs, returncode>>
    /\ UNCHANGED envVars
    /\ UNCHANGED <<startupLog, pushSyncs, pullOrCross, lateLocal, newBurst, wakeLocal,
                   cycDedupes, pendLocal, decided>>
    /\ UNCHANGED <<cycTransfers, cycRearms>>

\* lines 109 and 98: the poll interval elapsed, spawn the next lsjson
PollSleepDone ==
    /\ Alive
    /\ poll_pc = "sleep"
    /\ poll_pc' = "lsjson"
    /\ procs' = Spawned(procs, "lsjson")
    /\ UNCHANGED <<run_pc, watch_pc, sync_pc, local_changed, remote_changed, sync_request,
                   need_push, need_pull, last_state, stdout_content, returncode>>
    /\ UNCHANGED envVars
    /\ UNCHANGED histVars
    /\ UNCHANGED cycVars


\* ----------------------------------------------------------------- _sync
\* lines 118-119: the awaited future is done; spawn the pre-sync dedupe
SyncWake ==
    /\ Alive
    /\ sync_pc = "await_request"
    /\ sync_request = "done"
    /\ sync_pc' = "dedupe_pre"
    /\ procs' = Spawned(procs, "dedupe")
    /\ cycDedupes' = 1
    /\ UNCHANGED <<run_pc, watch_pc, poll_pc, local_changed, remote_changed, sync_request,
                   need_push, need_pull, last_state, stdout_content, returncode>>
    /\ UNCHANGED envVars
    /\ UNCHANGED <<startupLog, pushSyncs, pullOrCross, remoteRaised, lateLocal, newBurst,
                   wakeLocal, wakeRemote, pendLocal, pendRemote, decided>>
    /\ cycTransfers' = <<>>
    /\ cycRearms' = 0
    /\ UNCHANGED quiet

\* lines 126-151, from one evaluation of the loop condition to the next await:
\* either one more iteration up to the cooldown sleep, or the exit of the loop,
\* the new future, the decision and the spawn of its first transfer.
\* push, pull: the accumulators so far; bag: the subprocesses running now
Batch(push, pull, bag) ==
    IF LoopCondition(local_changed, remote_changed)
    THEN /\ need_push' = Accumulate(push, local_changed)
         /\ need_pull' = Accumulate(pull, remote_changed)
         /\ local_changed' = FALSE
         /\ remote_changed' = FALSE
         /\ sync_pc' = "cooldown"
         /\ procs' = bag
         /\ UNCHANGED <<run_pc, sync_request>>
         /\ UNCHANGED <<pushSyncs, pullOrCross, wakeLocal, wakeRemote, pendLocal, pendRemote, decided>>
         /\ quiet' = TRUE
         /\ UNCHANGED <<cycTransfers, cycRearms>>
    ELSE LET branch == Decide(push, pull) IN
         /\ need_push' = push
         /\ need_pull' = pull
         /\ UNCHANGED <<local_changed, remote_changed>>
         /\ sync_request' = Rearmed(sync_request)
         /\ sync_pc' = IF branch = "cross_copy" THEN "cross_copy_1"
                       ELSE IF branch = "unreachable" THEN "raised"
                       ELSE branch
         /\ run_pc' = IF branch = "unreachable" THEN "unwinding" ELSE run_pc
         /\ procs' = IF branch = "cross_copy" THEN Spawned(bag, CrossCopyOrder[1])
                     ELSE IF branch = "unreachable" THEN bag
                     ELSE Spawned(bag, branch)
         /\ pushSyncs' = IF branch = "sync_push" THEN pushSyncs + 1 ELSE pushSyncs
         /\ pullOrCross' = (pullOrCross \/ branch \in {"cross_copy", "sync_pull"})
         /\ decided' = [branch |-> branch, local |-> wakeLocal, remote |-> wakeRemote,
                        quiet |-> quiet, from |-> sync_pc]
         /\ quiet' = FALSE
         /\ cycRearms' = IF Rearmed(sync_request) # sync_request THEN cycRearms + 1
                          ELSE cycRearms
         /\ cycTransfers' = IF branch = "cross_copy" THEN Append(cycTransfers, CrossCopyOrder[1])
                             ELSE IF branch = "unreachable" THEN cycTransfers
                             ELSE Append(cycTransfers, branch)
         /\ wakeLocal' = FALSE
         /\ wakeRemote' = FALSE
         /\ pendLocal' = (pendLocal /\ branch \notin {"cross_copy", "sync_push"})
         /\ pendRemote' = (pendRemote /\ branch \notin {"cross_copy", "sync_pull"})

\* lines 119-126: the pre-sync dedupe exited; clear the accumulators, enter the loop
PreDedupeDone ==
    /\ Alive
    /\ sync_pc = "dedupe_pre"
    /\ BagIn("dedupe", procs)
    /\ \E rc \in ExitCodes : returncode' = Some(rc)
    /\ Batch(FALSE, FALSE, Reaped(procs, "dedupe"))
    /\ UNCHANGED <<watch_pc, poll_pc, last_state, stdout_content>>
    /\ UNCHANGED envVars
    /\ UNCHANGED <<startupLog, remoteRaised, lateLocal, newBurst, cycDedupes>>

\* lines 131 and 126: the cooldown sleep elapsed; evaluate the loop condition again
CooldownDone ==
    /\ Alive
    /\ sync_pc = "cooldown"
    /\ Batch(need_push, need_pull, procs)
    /\ UNCHANGED <<watch_pc, poll_pc, last_state, stdout_content, returncode>>
    /\ UNCHANGED envVars
    /\ UNCHANGED <<startupLog, remoteRaised, lateLocal, newBurst, cycDedupes>>

PostSyncSkipped(bag) ==
    /\ sync_pc' = "await_request"
    /\ procs' = bag
    /\ UNCHANGED cycDedupes

\* lines 153-155: the transfer is over; spawn the post-sync dedupe
PostSync(bag) ==
    /\ sync_pc' = "dedupe_post"
    /\ procs' = Spawned(bag, "dedupe")
    /\ cycDedupes' = cycDedupes + 1

\* lines 63-64 under line 143: the first copy of the cross-copy exited
CrossCopy1Done ==
    /\ Alive
    /\ sync_pc = "cross_copy_1"
    /\ BagIn(CrossCopyOrder[1], procs)
    /\ \E rc \in ExitCodes : returncode' = Some(rc)
    /\ sync_pc' = "cross_copy_2"
    /\ procs' = Spawned(Reaped(procs, CrossCopyOrder[1]), CrossCopyOrder[2])
    /\ UNCHANGED <<run_pc, watch_pc, poll_pc, local_changed, remote_changed, sync_request,
                   need_push, need_pull, last_state, stdout_content>>
    /\ UNCHANGED envVars
    /\ UNCHANGED histVars
    /\ cycTransfers' = Append(cycTransfers, CrossCopyOrder[2])
    /\ UNCHANGED <<cycRearms, quiet>>

\* line 64 under line 143, then lines 153-155: the second copy exited
CrossCopy2Done ==
    /\ Alive
    /\ sync_pc = "cross_copy_2"
    /\ BagIn(CrossCopyOrder[2], procs)
    /\ \E rc \in ExitCodes : returncode' = Some(rc)
    /\ PostSync(Reaped(procs, CrossCopyOrder[2]))
    /\ UNCHANGED <<run_pc, watch_pc, poll_pc, local_changed, remote_changed, sync_request,
                   need_push, need_pull, last_state, stdout_content>>
    /\ UNCHANGED envVars
    /\ UNCHANGED <<startupLog, pushSyncs, pullOrCross, remoteRaised, lateLocal, newBurst,
                   wakeLocal, wakeRemote, pendLocal, pendRemote, decided>>
    /\ UNCHANGED cycVars

\* lines 146 or 149, then lines 153-155: the mirrored sync exited
SyncUpdateDone ==
    /\ Alive
    /\ sync_pc \in {"sync_push", "sync_pull"}
    /\ BagIn(sync_pc, procs)
    /\ \E rc \in ExitCodes : returncode' = Some(rc)
    /\ PostSync(Reaped(procs, sync_pc))
    /\ UNCHANGED <<run_pc, watch_pc, poll_pc, local_changed, remote_changed, sync_request,
                   need_push, need_pull, last_state, stdout_content>>
    /\ UNCHANGED envVars
    /\ UNCHANGED <<startupLog, pushSyncs, pullOrCross, remoteRaised, lateLocal, newBurst,
                   wakeLocal, wakeRemote, pendLocal, pendRemote, decided>>
    /\ UNCHANGED cycVars

\* lines 155 and 117-118: the post-sync dedupe exited; await the future again
PostDedupeDone ==
    /\ Alive
    /\ sync_pc = "dedupe_post"
    /\ BagIn("dedupe", procs)
    /\ \E rc \in ExitCodes : returncode' = Some(rc)
    /\ sync_pc' = "await_request"
    /\ procs' = Reaped(procs, "dedupe")
    /\ decided' = NoDecision
    /\ UNCHANGED <<run_pc, watch_pc, poll_pc, local_changed, remote_changed, sync_request,
                   need_push, need_pull, last_state, stdout_content>>
    /\ UNCHANGED envVars
    /\ UNCHANGED <<startupLog, pushSyncs, pullOrCross, remoteRaised, lateLocal, newBurst,
                   wakeLocal, wakeRemote, cycDedupes, pendLocal, pendRemote>>
    /\ UNCHANGED cycVars

\* ------------------------------------------------------- specifications
Startup == RunAsync \/ StartupCopy1Done \/ StartGather
Watcher == WatchLocal
Poller == LsjsonOutput \/ PollRemote \/ PollSleepDone
Coordinator ==
    \/ SyncWake
    \/ PreDedupeDone
    \/ CooldownDone
    \/ CrossCopy1Done
    \/ CrossCopy2Done
    \/ SyncUpdateDone
    \/ PostDedupeDone

Next == Startup \/ Watcher \/ Poller \/ Coordinator \/ CancelAll \/ RemoteEdit

Spec == Init /\ [][Next]_vars

\* every external call returns, every sleep ends and the loop keeps scheduling
\* the coroutines that are ready; the environment owes nothing
FairSpec ==
    /\ Init
    /\ [][Next]_vars
    /\ WF_vars(Startup)
    /\ WF_vars(Poller)
    /\ WF_vars(Coordinator)
    /\ WF_vars(CancelAll)

TypeOK ==
    /\ run_pc \in {"new", "cross_copy_1", "cross_copy_2", "gather", "unwinding", "exited"}
    /\ watch_pc \in {"unstarted", "awatch", "cancelled"}
    /\ poll_pc \in {"unstarted", "lsjson", "read", "sleep", "raised", "cancelled"}
    /\ sync_pc \in {"unstarted", "await_request", "dedupe_pre", "cooldown", "dedupe_post",
                    "raised", "cancelled"} \cup TransferPcs
    /\ local_changed \in BOOLEAN
    /\ remote_changed \in BOOLEAN
    /\ sync_request \in {"None", "pending", "done"}
    /\ need_push \in BOOLEAN
    /\ need_pull \in BOOLEAN
    /\ remote \in RemoteTrees
    /\ nEdits \in 0..MaxRemoteEdits
    /\ nLocal \in 0..MaxLocalEvents
    /\ pushSyncs \in 0..MaxLocalEvents
    /\ cycDedupes \in 0..2
    /\ cycRearms \in 0..1
    /\ quiet \in BOOLEAN
    /\ Len(cycTransfers) <= 2


\* ------------------------------------------------------------ properties
\* the Coordinator is back in Idle on a pending future: every signal raised so
\* far was followed by the cooldown in which the batching loop saw no flag
Quiescent ==
    /\ run_pc = "gather"
    /\ sync_pc = "await_request"
    /\ sync_request = "pending"

\* one run of local notifications and nothing else: no remote signal, and no
\* notification that found the Coordinator idle again after a completed cycle
\* (that one starts a sequence of its own, after a silence of a cooldown)
LocalOnlyBurst ==
    /\ nLocal >= 1
    /\ ~remoteRaised
    /\ ~newBurst

C2_BothSignalsCrossCopy ==
    (decided.local /\ decided.remote) => decided.branch = "cross_copy"

C2_Witness ==
    /\ decided.local
    /\ decided.remote
    /\ decided.branch = "cross_copy"
    /\ sync_pc \in {"cross_copy_1", "cross_copy_2"}

\* subprocesses the Coordinator (or the startup cross-copy) awaits: transfers and dedupes
Outstanding ==
    CopiesIn("copy_pull", procs) + CopiesIn("copy_push", procs)
        + CopiesIn("sync_push", procs) + CopiesIn("sync_pull", procs)
        + CopiesIn("dedupe", procs)

\* C3: at most one transfer or dedupe of the Coordinator is outstanding in any
\* state, also when a wake is raised during it; a transfer is outstanding only
\* in the Syncing phase and there only the transfer of that phase.
C3_OneSyncing ==
    /\ Outstanding <= 1
    /\ \A c \in TransferCmds :
          (BagIn(c, procs) /\ Alive) =>
              \/ sync_pc = c
              \/ sync_pc = "cross_copy_1" /\ c = CrossCopyOrder[1]
              \/ sync_pc = "cross_copy_2" /\ c = CrossCopyOrder[2]
              \/ sync_pc = "cancelled"

\* a wake raised while the transfer of a cycle is outstanding
C3_Witness ==
    /\ sync_pc \in TransferPcs
    /\ sync_request = "done"
    /\ local_changed
    /\ Outstanding = 1

\* C4 under FairSpec: every signal is eventually followed by a transfer that
\* starts after it and includes its side.
C4_NoSignalLost ==
    /\ pendLocal ~> ~pendLocal
    /\ pendRemote ~> ~pendRemote

StartupCopies == {"new", "cross_copy_1", "cross_copy_2"}

NothingStarted ==
    /\ watch_pc = "unstarted"
    /\ poll_pc = "unstarted"
    /\ sync_pc = "unstarted"
    /\ ~local_changed
    /\ ~remote_changed
    /\ sync_request = "None"
    /\ last_state = None
    /\ nLocal = 0
    /\ ~BagIn("lsjson", procs)
    /\ ~BagIn("dedupe", procs)

C6_DedupeTwice ==
    /\ sync_pc \in {"dedupe_pre", "cooldown"} \cup TransferPcs => cycDedupes = 1
    /\ sync_pc = "dedupe_post" => cycDedupes = 2
    /\ sync_pc = "await_request" =>
          cycDedupes = (IF pushSyncs > 0 \/ pullOrCross THEN 2 ELSE 0)
    /\ (sync_pc \in {"dedupe_pre", "dedupe_post"} /\ Alive) => BagIn("dedupe", procs)
    /\ (sync_pc \in TransferPcs /\ Alive) => ~BagIn("dedupe", procs)

\* a completed cycle
C6_Witness ==
    /\ sync_pc = "await_request"
    /\ cycDedupes = 2
    /\ pushSyncs > 0

\* C7: a poll whose listing cannot be read sets no flag, raises nothing and
\* goes on to the sleep before the next poll.
C7_PollFailureTolerated ==
    [][(/\ poll_pc = "read"
        /\ FetchRemoteState(stdout_content[1]).raised
        /\ poll_pc' \notin {"read", "cancelled"})
       => (/\ poll_pc' = "sleep"
           /\ run_pc' = run_pc
           /\ remote_changed' = remote_changed
           /\ sync_request' = sync_request)]_vars

\* C8: the Coordinator is past an external call of its cycle only if that call
\* exited with code 0; a nonzero exit ends the Coordinator.
C8_FailureSurfaced ==
    sync_pc \in {"cooldown", "dedupe_post"} \cup TransferPcs => returncode = Some(0)

\* C9: a poll after the baseline whose listing differs from the last one sets
\* _remote_changed and resolves the future; every poll replaces the last listing.
C9_DifferenceRaises ==
    [][(poll_pc = "read" /\ poll_pc' = "sleep")
       => (/\ last_state' = Some(FetchRemoteState(stdout_content[1]).value)
           /\ (last_state # None /\ last_state' # last_state)
                 => (remote_changed' /\ sync_request' = "done"))]_vars

\* C10: the first poll that returns a listing leaves _remote_changed and the
\* future as they are.
C10_BaselineSilent ==
    [][(poll_pc = "read" /\ last_state = None /\ poll_pc' = "sleep")
       => (/\ remote_changed' = remote_changed
           /\ sync_request' = sync_request
           /\ last_state' # None)]_vars

\* the baseline is a listing with entries and no signal was raised
C10_Witness ==
    /\ poll_pc = "sleep"
    /\ Truthy(last_state)
    /\ nEdits = 0
    /\ ~remoteRaised
    /\ ~remote_changed
    /\ sync_request = "pending"


\* the decision of the running or the last cycle has been taken
Decided ==
    \/ sync_pc \in TransferPcs
    \/ sync_pc = "dedupe_post"
    \/ sync_pc = "await_request" /\ cycDedupes = 2

\* the transfer of the cycle is over
Transferred ==
    \/ sync_pc = "dedupe_post"
    \/ sync_pc = "await_request" /\ cycDedupes = 2

\* argv is "rclone sync ... source dest --delete-before"
IsMirroredSync(argv, source, dest) ==
    /\ Len(argv) = 8
    /\ argv[1] = "rclone"
    /\ argv[2] = "sync"
    /\ argv[6] = source
    /\ argv[7] = dest
    /\ argv[8] = "--delete-before"

\* argv is "rclone copy ... source dest" and deletes nothing
IsUpdateCopy(argv, source, dest) ==
    /\ Len(argv) = 7
    /\ argv[1] = "rclone"
    /\ argv[2] = "copy"
    /\ argv[4] = "--update"
    /\ argv[6] = source
    /\ argv[7] = dest

\* C11: with exactly one accumulator true at the decision, the transfers of the
\* cycle are one mirrored sync with --delete-before, local -> remote for
\* need_push and remote -> local for need_pull, and nothing else.
C11_OneMirroredSync ==
    (Decided /\ need_push # need_pull) =>
        /\ Len(cycTransfers) = 1
        /\ need_push => IsMirroredSync(Argv(cycTransfers[1]), "local_path", "remote_path")
        /\ need_pull => IsMirroredSync(Argv(cycTransfers[1]), "remote_path", "local_path")
        /\ sync_pc \in TransferPcs => procs (-) SetToBag({"lsjson"}) = SetToBag({cycTransfers[1]})

\* a pull-only cycle whose transfer is over
C11_Witness ==
    /\ sync_pc = "dedupe_post"
    /\ need_pull
    /\ ~need_push
    /\ cycTransfers = <<"sync_pull">>

C13_UnreachableNeverFails ==
    /\ sync_pc # "raised"
    /\ sync_pc = "dedupe_pre" => sync_request = "done"
    /\ (sync_pc \in {"await_request", "dedupe_pre"} /\ sync_request = "done")
          => (local_changed \/ remote_changed)
    /\ Decided => (need_push \/ need_pull)

\* a decision taken on a remote signal alone
C13_Witness ==
    /\ sync_pc = "sync_pull"
    /\ decided.branch = "sync_pull"
    /\ need_pull
    /\ ~need_push

\* C14: the batching loop is left, and the transfer spawned, only at the end of
\* a cooldown sleep during which no signal was raised; a signal raised during a
\* cooldown sleep leaves its flag set for the next evaluation of the loop.
C14_QuietCooldownBeforeTransfer ==
    /\ decided.branch # "none" => (decided.from = "cooldown" /\ decided.quiet)
    /\ (sync_pc = "cooldown" /\ ~quiet) => (local_changed \/ remote_changed)
    /\ (sync_pc = "cooldown" /\ quiet) => (~local_changed /\ ~remote_changed)

\* a push decided after a signal that was raised during the cycle
C14_Witness ==
    /\ sync_pc = "sync_push"
    /\ decided.local
    /\ decided.quiet
    /\ decided.from = "cooldown"

\* C15: _sync replaces the future once per cycle, in the step that leaves the
\* batching loop and spawns the transfer: not before (pre-dedupe, cooldown),
\* not again later (transfer, post-dedupe); no other step turns the future
\* into a pending one, apart from its creation in run_async.
C15_RearmOncePerCycle ==
    /\ [](/\ sync_pc \in {"dedupe_pre", "cooldown"} => (cycRearms = 0 /\ sync_request = "done")
          /\ Decided => cycRearms = 1)
    /\ [][(sync_request' # sync_request /\ sync_request' = "pending")
          => \/ run_pc = "cross_copy_2" /\ sync_request = "None"
             \/ sync_pc = "cooldown" /\ sync_pc' \in TransferPcs /\ nLocal' = nLocal
                  /\ poll_pc' = poll_pc]_vars

\* the transfer runs on the new, still pending future
C15_Witness ==
    /\ sync_pc \in TransferPcs
    /\ cycRearms = 1
    /\ sync_request = "pending"
    /\ decided.branch # "none"


\* one step of _watch_local (the awatch iterator yielded) and one step of
\* _poll_remote between two of its awaits; DetectingStep is the pass of the
\* poll loop that enters the branch of lines 100-103
WatcherStep == nLocal' # nLocal

PollerStep ==
    /\ poll_pc \in {"lsjson", "read", "sleep"}
    /\ poll_pc' \in {"lsjson", "read", "sleep", "raised"}
    /\ poll_pc' # poll_pc

DetectingStep ==
    /\ poll_pc = "read"
    /\ poll_pc' = "sleep"
    /\ RemoteChangeDetected(last_state, last_state'[1])

Gates == {"None", "pending", "done"}

\* C16: _request_sync is idempotent: on a future that is already done, or not
\* yet created, it changes nothing and raises nothing, so a second wake on the
\* same future leaves the state a single wake produced; _sync_request holds
\* one future at a time, created before the three tasks start.
C16_WakeIdempotent ==
    /\ [](/\ sync_request \in Gates
          /\ run_pc \in {"gather", "unwinding", "exited"} => sync_request # "None"
          /\ \A r \in Gates : /\ RequestSync(RequestSync(r)) = RequestSync(r)
                              /\ r \in {"None", "done"} => RequestSync(r) = r
                              /\ RequestSync(r) \in Gates)
    /\ [][((WatcherStep \/ DetectingStep) /\ sync_request = "done")
            => /\ sync_request' = "done"
               /\ watch_pc' = watch_pc
               /\ poll_pc' = "raised" => poll_pc = "raised"
               /\ <<run_pc, sync_pc, need_push, need_pull, procs>>' =
                      <<run_pc, sync_pc, need_push, need_pull, procs>>]_vars

\* two local events have been signalled on one future before _sync consumed it
C16_Witness ==
    /\ nLocal = 2
    /\ wakeLocal
    /\ local_changed
    /\ sync_request = "done"
    /\ sync_pc = "await_request"
    /\ cycDedupes = 0

TransferOrDedupe == TransferCmds \cup {"dedupe"}

\* C17: a step of _watch_local or _poll_remote can only set its own flag and
\* resolve the future; it never clears a flag, never touches the other flag,
\* never replaces the future and never spawns copy, sync or dedupe.  Once the
\* three tasks run, flags are cleared and copy, sync and dedupe are spawned by
\* steps of _sync only.
C17_WatcherPollerFrame ==
    [][/\ WatcherStep =>
            /\ local_changed'
            /\ remote_changed' = remote_changed
            /\ sync_request' \in {sync_request, "done"}
            /\ procs' = procs
            /\ <<sync_pc, need_push, need_pull>>' = <<sync_pc, need_push, need_pull>>
       /\ PollerStep =>
            /\ local_changed' = local_changed
            /\ remote_changed => remote_changed'
            /\ sync_request' \in {sync_request, "done"}
            /\ \A c \in TransferOrDedupe : CopiesIn(c, procs') = CopiesIn(c, procs)
            /\ <<sync_pc, need_push, need_pull>>' = <<sync_pc, need_push, need_pull>>
       /\ ((local_changed /\ ~local_changed') \/ (remote_changed /\ ~remote_changed'))
            => (sync_pc \in {"dedupe_pre", "cooldown"} /\ sync_pc' = "cooldown"
                   /\ ~WatcherStep /\ ~PollerStep)
       /\ (run_pc \in {"gather", "unwinding"}
             /\ \E c \in TransferOrDedupe : CopiesIn(c, procs') > CopiesIn(c, procs))
            => (sync_pc' # sync_pc /\ ~WatcherStep /\ ~PollerStep)
      ]_vars

\* both tasks have raised their flag while _sync runs a transfer of its own
C17_Witness ==
    /\ sync_pc \in TransferPcs
    /\ local_changed
    /\ remote_changed
    /\ sync_request = "done"
    /\ cycRearms = 1

\* C19: while the three tasks run, a pending future implies that both flags
\* are false: a set flag always comes with a resolved future.
C19_ClosedGateCleanFlags ==
    /\ sync_request = "pending" => (~local_changed /\ ~remote_changed)
    /\ sync_request = "None" => (~local_changed /\ ~remote_changed)
    /\ (local_changed \/ remote_changed) => sync_request = "done"

\* _sync is back at its await with a flag set during the transfer: the
\* future it awaits is already resolved
C19_Witness ==
    /\ sync_pc = "await_request"
    /\ cycDedupes = 2
    /\ remote_changed
    /\ ~local_changed
    /\ sync_request = "done"


Failed(pc) == pc = "raised"

\* C18: once one of the three tasks has raised, the other two do nothing any
\* more: no flag is set, no future resolved or replaced, no rclone process
\* spawned or reaped, and their only possible move is to be cancelled.
C18_NoActivityOutlivesFailure ==
    [][(Failed(watch_pc) \/ Failed(poll_pc) \/ Failed(sync_pc))
         => /\ watch_pc' \in {watch_pc, "cancelled"}
            /\ poll_pc' \in {poll_pc, "cancelled"}
            /\ sync_pc' \in {sync_pc, "cancelled"}
            /\ <<local_changed, remote_changed, sync_request, need_push, need_pull, procs>>' =
                   <<local_changed, remote_changed, sync_request, need_push, need_pull, procs>>
      ]_vars


Idle ==
    /\ sync_pc = "await_request"
    /\ sync_request = "pending"
    /\ ~local_changed
    /\ ~remote_changed

\* C20 under FairSpec: once watch events and remote changes have stopped
\* (both are finitely many here), _sync eventually waits on a pending future
\* with both flags false, and stays there.
C20_EventuallyIdleForever == <>[]Idle

====
